---------------------------- MODULE Spec2Model ----------------------------
(***************************************************************************)
(* notebook1.ipynb: gradient and Hessian of the cross-entropy loss of a    *)
(* 3-class, 4-feature, bias-free linear classifier, computed by            *)
(* torch.func, by loss.backward() and by closed formulas, and compared     *)
(* with torch.allclose.                                                    *)
(*                                                                         *)
(* Numbers.  A tensor element is an exact rational <<n, d>> (d > 0,        *)
(* lowest terms), so floating-point rounding noise is outside the model:   *)
(* two code paths agree here iff they compute the same quantity.  The      *)
(* stored parameters have finite precision (Resolution units per 1), and   *)
(* exp is computed by range reduction (see Exp).                           *)
(*                                                                         *)
(* Tensors are functions over 0-based index ranges, as in the notebook.    *)
(***************************************************************************)
EXTENDS Integers, Sequences, FiniteSets, TLC

\* nn.Linear(4, 3, bias=False): 4 input features, 3 classes.
Features == 4
Classes == 3
\* The 12 entries of linear.weight, flattened.
NParams == Classes * Features

\* torch.nn.CrossEntropyLoss() is built with its default ignore_index.
IgnoreIndex == -100

\* Bound on the number of optimizer steps of the training loop.
MaxTrainSteps == 1
\* Stored parameters are multiples of 1/Resolution.
Resolution == 100

\* Python's None / an unassigned name: the empty tuple, which compares with
\* every tensor.
None == <<>>

FIdx == 0 .. (Features - 1)
CIdx == 0 .. (Classes - 1)
PIdx == 0 .. (NParams - 1)
Labels == CIdx

---------------------------------------------------------------------------
(* Exact rational arithmetic *)

AbsInt(n) == IF n < 0 THEN -n ELSE n

RECURSIVE GCD(_, _)
GCD(a, b) == IF b = 0 THEN a ELSE GCD(b, a % b)

\* n/d in lowest terms with a positive denominator (d # 0).
Rat(n, d) ==
    LET g == GCD(AbsInt(n), AbsInt(d))
        s == IF d < 0 THEN -1 ELSE 1
    IN  <<s * (n \div g), s * (d \div g)>>

RInt(n) == <<n, 1>>
RZero == RInt(0)
ROne == RInt(1)

RatNeg(a) == <<-a[1], a[2]>>

RatAdd(a, b) ==
    IF a[1] = 0 THEN b
    ELSE IF b[1] = 0 THEN a
    ELSE IF a[2] = b[2] THEN Rat(a[1] + b[1], a[2])
    ELSE LET g == GCD(a[2], b[2])
         IN  Rat(a[1] * (b[2] \div g) + b[1] * (a[2] \div g), (a[2] \div g) * b[2])

RatSub(a, b) == RatAdd(a, RatNeg(b))

\* cross-cancelled first, so that the products stay small
RatMul(a, b) ==
    IF a[1] = 0 \/ b[1] = 0 THEN RZero
    ELSE IF a[2] = 1 /\ b[2] = 1 THEN <<a[1] * b[1], 1>>
    ELSE LET g1 == GCD(AbsInt(a[1]), b[2])
             g2 == GCD(AbsInt(b[1]), a[2])
         IN  <<(a[1] \div g1) * (b[1] \div g2), (a[2] \div g2) * (b[2] \div g1)>>

\* b # 0
RatDiv(a, b) == RatMul(a, Rat(b[2], b[1]))

RatAbs(a) == <<AbsInt(a[1]), a[2]>>

RatLeq(a, b) == RatSub(a, b)[1] <= 0
RatLt(a, b) == RatSub(a, b)[1] < 0

\* floor(a)
RatFloor(a) == a[1] \div a[2]

\* Nearest integer, ties to even (the IEEE rounding of a store).
RatRound(a) ==
    LET f == RatFloor(a)
        r == RatSub(a, RInt(f))
        half == Rat(1, 2)
    IN  IF RatLt(r, half) THEN f
        ELSE IF RatLt(half, r) THEN f + 1
        ELSE IF f % 2 = 0 THEN f ELSE f + 1

RECURSIVE RatPow(_, _)
RatPow(a, k) ==
    IF k = 0 THEN ROne
    ELSE IF k < 0 THEN RatPow(Rat(a[2], a[1]), -k)
    ELSE RatMul(a, RatPow(a, k - 1))

RECURSIVE RatSumTo(_, _)
\* f[0] + ... + f[n-1], left to right
RatSumTo(f, n) == IF n = 0 THEN RZero ELSE RatAdd(RatSumTo(f, n - 1), f[n - 1])

Len0(f) == Cardinality(DOMAIN f)
RatSum(f) == RatSumTo(f, Len0(f))

---------------------------------------------------------------------------
(* Natural numbers of any size, little-endian in base BigBase, for the     *)
(* products of the tolerance test, which exceed the machine integer.       *)

BigBase == 10 ^ 4

RECURSIVE BigOf(_)
BigOf(n) == IF n = 0 THEN <<>> ELSE <<n % BigBase>> \o BigOf(n \div BigBase)

RECURSIVE BigAddC(_, _, _)
BigAddC(a, b, c) ==
    IF a = <<>> /\ b = <<>> THEN (IF c = 0 THEN <<>> ELSE <<c>>)
    ELSE LET x == IF a = <<>> THEN 0 ELSE Head(a)
             y == IF b = <<>> THEN 0 ELSE Head(b)
             s == x + y + c
         IN  <<s % BigBase>> \o
             BigAddC(IF a = <<>> THEN a ELSE Tail(a),
                     IF b = <<>> THEN b ELSE Tail(b), s \div BigBase)

BigAdd(a, b) == BigAddC(a, b, 0)

RECURSIVE BigMulDigit(_, _, _)
\* a * k + c for a digit k
BigMulDigit(a, k, c) ==
    IF a = <<>> THEN (IF c = 0 THEN <<>> ELSE <<c>>)
    ELSE LET s == Head(a) * k + c
         IN  <<s % BigBase>> \o BigMulDigit(Tail(a), k, s \div BigBase)

RECURSIVE BigTrim(_)
BigTrim(a) ==
    IF a # <<>> /\ a[Len(a)] = 0 THEN BigTrim(SubSeq(a, 1, Len(a) - 1)) ELSE a

RECURSIVE BigMulRaw(_, _)
BigMulRaw(a, b) ==
    IF b = <<>> THEN <<>>
    ELSE BigAdd(BigMulDigit(a, Head(b), 0), <<0>> \o BigMulRaw(a, Tail(b)))

BigMul(a, b) == BigTrim(BigMulRaw(a, b))

RECURSIVE BigLeqFrom(_, _, _)
\* compares from the most significant digit; a and b trimmed, same length
BigLeqFrom(a, b, k) ==
    IF k = 0 THEN TRUE
    ELSE IF a[k] # b[k] THEN a[k] < b[k]
    ELSE BigLeqFrom(a, b, k - 1)

BigLeq(a, b) ==
    IF Len(a) # Len(b) THEN Len(a) < Len(b) ELSE BigLeqFrom(a, b, Len(a))

---------------------------------------------------------------------------
(* Tensors: a vector is a function over 0 .. n-1, a matrix a function over *)
(* 0 .. r-1 of rows.  Python evaluates the arguments of a call before the  *)
(* call and stores every tensor it computes; Strict and Tensor say so      *)
(* (comparing a value with itself evaluates it).                           *)

Strict1(a, r) == IF a = a THEN r ELSE r
Strict2(a, b, r) == IF a = a /\ b = b THEN r ELSE r
Tensor(f) == IF f = f THEN f ELSE f

Rows(A) == Len0(A)
Cols(A) == Len0(A[0])

Transpose(A) ==
    Strict1(A, Tensor([j \in DOMAIN A[0] |-> [i \in DOMAIN A |-> A[i][j]]]))

\* A @ B
MatMul(A, B) ==
    Strict2(A, B, Tensor([i \in DOMAIN A |-> [j \in DOMAIN B[0] |->
        RatSum([m \in DOMAIN B |-> RatMul(A[i][m], B[m][j])])]]))

MatSub(A, B) ==
    Strict2(A, B, Tensor([i \in DOMAIN A |-> [j \in DOMAIN A[i] |->
        RatSub(A[i][j], B[i][j])]]))

MatAdd(A, B) ==
    Strict2(A, B, Tensor([i \in DOMAIN A |-> [j \in DOMAIN A[i] |->
        RatAdd(A[i][j], B[i][j])]]))

\* tensor.flatten() of a matrix: row-major, entry Cols*i + k is A[i][k]
FlattenColMajor(A) ==
    Strict1(A, Tensor([n \in 0 .. (Rows(A) * Cols(A) - 1) |->
        A[n % Rows(A)][n \div Rows(A)]]))
Flatten(A) ==
    Strict1(A, Tensor([n \in 0 .. (Rows(A) * Cols(A) - 1) |->
        A[n \div Cols(A)][n % Cols(A)]]))

\* torch.zeros(r, c)
Zeros(r, c) == Tensor([i \in 0 .. (r - 1) |-> [j \in 0 .. (c - 1) |-> RZero]])

---------------------------------------------------------------------------
(* Forward model and loss *)

\* self.linear(x) with bias=False: x @ W^T, one row of logits per sample
Linear(W, x) == MatMul(x, Transpose(W))

\* Base of the exponential: e rounded to an integer, which keeps the
\* probabilities within the range of machine integers.
ExpBase == 3

\* exp by range reduction: ExpBase^floor(q) times the linear interpolant on
\* the fractional part; exact at the integers, positive and increasing.
Exp(q) ==
    LET f == RatFloor(q)
        r == RatSub(q, RInt(f))
    IN  RatMul(RatPow(RInt(ExpBase), f),
               RatAdd(ROne, RatMul(RInt(ExpBase - 1), r)))

RECURSIVE RatMaxTo(_, _)
RatMaxTo(z, n) ==
    IF n = 1 THEN z[0]
    ELSE LET m == RatMaxTo(z, n - 1) IN IF RatLt(m, z[n - 1]) THEN z[n - 1] ELSE m

\* The exponentials of one row of logits, shifted by its maximum
ShiftedExp(z) ==
    Strict1(z, Tensor([i \in DOMAIN z |-> Exp(RatSub(z[i], RatMaxTo(z, Len0(z))))]))

Normalize(e) == Strict1(e, Tensor([i \in DOMAIN e |-> RatDiv(e[i], RatSum(e))]))

\* softmax of one row of logits
SoftmaxVec(z) == Normalize(ShiftedExp(z))

\* out.softmax(dim=1)
Softmax(out) == Strict1(out, Tensor([b \in DOMAIN out |-> SoftmaxVec(out[b])]))

\* criterion(out, target) raises IndexError ("Target y is out of bounds")
\* for a class index outside the logits that is not ignore_index.
CrossEntropyRaises(target) ==
    \E b \in DOMAIN target : target[b] \notin Labels /\ target[b] # IgnoreIndex

\* F.one_hot(target, num_classes=3) raises RuntimeError for a class value
\* that is negative or not below num_classes.
OneHotRaises(target) == \E b \in DOMAIN target : target[b] \notin Labels

\* F.one_hot(target, num_classes=3), target valid
OneHot(target) ==
    Tensor([b \in DOMAIN target |-> [i \in CIdx |->
        IF i = target[b] THEN ROne ELSE RZero]])

---------------------------------------------------------------------------
(* Automatic differentiation: the derivative rules of the three primitives *)
(* of compute_loss (linear, log_softmax, nll_loss), composed in reverse    *)
(* mode for the gradient and forward-over-reverse for the Hessian.         *)

NKept(target) == Cardinality({b \in DOMAIN target : target[b] # IgnoreIndex})

\* nll_loss backward with reduction = mean: d loss / d log-probabilities;
\* an ignored sample contributes nothing
NllLossBackward(target) ==
    Tensor([b \in DOMAIN target |-> [i \in CIdx |->
        IF target[b] # IgnoreIndex /\ i = target[b]
        THEN Rat(-1, NKept(target)) ELSE RZero]])

\* log_softmax backward: gout - softmax * sum(gout), row by row
LogSoftmaxBackward(gout, p) ==
    Strict2(gout, p, Tensor([b \in DOMAIN gout |-> [i \in CIdx |->
        RatSub(gout[b][i], RatMul(p[b][i], RatSum(gout[b])))]]))

\* linear backward for the weight: gz^T @ x
LinearBackward(gz, x) == MatMul(Transpose(gz), x)

\* Reverse mode through criterion(model(data), target): d loss / d W (3x4)
Backward(W, data, target) ==
    LinearBackward(
        LogSoftmaxBackward(NllLossBackward(target), Softmax(Linear(W, data))),
        data)

\* grad(compute_loss, argnums=1)(model, params, data, target), then
\* torch.cat([g.data.flatten() for g in g_dict.values()]): params holds the
\* one tensor linear.weight.
FuncGrad(W, data, target) == Flatten(Backward(W, data, target))

\* The unit tangent of W[j][l]
Basis(j, l) ==
    Tensor([i \in CIdx |-> [k \in FIdx |-> IF i = j /\ k = l THEN ROne ELSE RZero]])

\* softmax forward-mode rule: dp = p * (dz - <p, dz>), row by row
SoftmaxJvp(p, dz) ==
    Strict2(p, dz, Tensor([b \in DOMAIN p |-> [i \in CIdx |->
        RatMul(p[b][i],
               RatSub(dz[b][i],
                      RatSum([m \in CIdx |-> RatMul(p[b][m], dz[b][m])])))]]))

\* log_softmax backward, forward-mode rule: the cotangent gout of nll_loss
\* does not depend on W, so only softmax carries a tangent:
\* d(gout - p * sum(gout)) = - dp * sum(gout)
LogSoftmaxBackwardJvp(gout, dp) ==
    Strict2(gout, dp, Tensor([b \in DOMAIN gout |-> [i \in CIdx |->
        RatNeg(RatMul(dp[b][i], RatSum(gout[b])))]]))

\* Tangent of Backward along dW, at the softmax p and the cotangent gout
\* that the reverse pass saved
BackwardJvp(p, gout, dW, data) ==
    LinearBackward(LogSoftmaxBackwardJvp(gout, SoftmaxJvp(p, Linear(dW, data))), data)

\* jacfwd: one tangent per entry W[j][l]
Jacobian(p, gout, data) ==
    Strict2(p, gout, Tensor([j \in CIdx |-> [l \in FIdx |->
        BackwardJvp(p, gout, Basis(j, l), data)]]))

\* The output dimensions come first: [i][k][j][l] = d grad[i][k] / d W[j][l]
OutputFirst(jac) ==
    Strict1(jac, Tensor([i \in CIdx |-> [k \in FIdx |-> [j \in CIdx |-> [l \in FIdx |->
        jac[j][l][i][k]]]]]))

\* hessian(compute_loss, argnums=1)(...)["linear.weight"]["linear.weight"]:
\* jacfwd of jacrev, of shape 3x4x3x4
HessianTensor(W, data, target) ==
    OutputFirst(Jacobian(Softmax(Linear(W, data)), NllLossBackward(target), data))

\* .reshape(12, 12) of the 3x4x3x4 tensor
Reshape12(T) ==
    Strict1(T, Tensor([a \in PIdx |-> [b \in PIdx |->
        T[a \div Features][a % Features][b \div Features][b % Features]]]))

FuncHessian(W, data, target) == Reshape12(HessianTensor(W, data, target))

---------------------------------------------------------------------------
(* Closed formulas *)

\* ((out.softmax(dim=1) - target_onehot).T @ data).flatten()
AnalyticGradSwapped(W, data, target) ==
    Flatten(MatMul(Transpose(MatSub(OneHot(target), Softmax(Linear(W, data)))), data))
AnalyticGrad(W, data, target) ==
    Flatten(MatMul(Transpose(MatSub(Softmax(Linear(W, data)), OneHot(target))), data))

\* prob = model(data)[0].softmax(dim=0)
Prob(W, data) == SoftmaxVec(Linear(W, data)[0])

\* x * A for a scalar x
Scale(x, A) ==
    Strict2(x, A, Tensor([k \in DOMAIN A |-> [l \in DOMAIN A[k] |-> RatMul(x, A[k][l])]]))

\* int(i == j)
Delta(i, j) == RInt(IF i = j THEN 1 ELSE 0)

\* prob[i] * (int(i == j) - prob[j]) * (data.T @ data)
HessBlockNoDelta(prob, data, i, j) ==
    Scale(RatMul(prob[i], RatNeg(prob[j])), MatMul(Transpose(data), data))
HessBlockSameIndex(prob, data, i, j) ==
    Scale(RatMul(prob[i], RatSub(Delta(i, j), prob[i])), MatMul(Transpose(data), data))
HessBlockNegated(prob, data, i, j) ==
    Scale(RatMul(prob[i], RatSub(prob[j], Delta(i, j))), MatMul(Transpose(data), data))
HessBlock(prob, data, i, j) ==
    Scale(RatMul(prob[i], RatSub(Delta(i, j), prob[j])), MatMul(Transpose(data), data))

\* hess2[i*4:(i+1)*4, j*4:(j+1)*4] = blk, and the ledger of assignments
AssignBlock(acc, blk, i, j) ==
    LET rs == (i * Features) .. ((i + 1) * Features - 1)
        cs == (j * Features) .. ((j + 1) * Features - 1)
    IN  Strict2(acc, blk,
         [h |-> Tensor([a \in PIdx |-> [b \in PIdx |->
                 IF a \in rs /\ b \in cs
                 THEN blk[a - i * Features][b - j * Features] ELSE acc.h[a][b]]]),
          writes |-> Tensor([a \in PIdx |-> [b \in PIdx |->
                 IF a \in rs /\ b \in cs THEN acc.writes[a][b] + 1 ELSE acc.writes[a][b]]])])

RECURSIVE HessLoop(_, _, _, _)
\* for i in range(3): for j in range(3): ..., the first n iterations
HessLoop(acc, prob, data, n) ==
    IF n = 0 THEN acc
    ELSE LET i == (n - 1) \div Classes
             j == (n - 1) % Classes
         IN  AssignBlock(HessLoop(acc, prob, data, n - 1),
                         HessBlock(prob, data, i, j), i, j)

\* hess2 = torch.zeros(12, 12), then the loop
AnalyticHessianShort(W, data) ==
    HessLoop([h |-> Zeros(NParams, NParams),
              writes |-> Tensor([a \in PIdx |-> [b \in PIdx |-> 0]])],
             Prob(W, data), data, Classes * (Classes - 1))
AnalyticHessian(W, data) ==
    HessLoop([h |-> Zeros(NParams, NParams),
              writes |-> Tensor([a \in PIdx |-> [b \in PIdx |-> 0]])],
             Prob(W, data), data, Classes * Classes)

---------------------------------------------------------------------------
(* torch.allclose(input, other) with its default tolerances *)

atol == Rat(1, 10 ^ 8)
rtol == Rat(1, 10 ^ 5)

\* |a - b| <= atol + rtol * |b|, decided on integers of any size:
\* n/d <= an/ad + (rn/rd)(m/e)  iff  n ad rd e <= d (an rd e + rn m ad)
Close(a, b) ==
    LET diff == RatAbs(RatSub(a, b))
        ab == RatAbs(b)
        n == BigOf(diff[1])
        d == BigOf(diff[2])
        m == BigOf(ab[1])
        e == BigOf(ab[2])
        an == BigOf(atol[1])
        ad == BigOf(atol[2])
        rn == BigOf(rtol[1])
        rd == BigOf(rtol[2])
    IN  BigLeq(BigMul(BigMul(n, ad), BigMul(rd, e)),
               BigMul(d, BigAdd(BigMul(an, BigMul(rd, e)), BigMul(rn, BigMul(m, ad)))))

AllCloseVec(u, v) == \A n \in DOMAIN u : Close(u[n], v[n])
AllCloseMat(A, B) == \A a \in DOMAIN A : \A b \in DOMAIN A[a] : Close(A[a][b], B[a][b])

---------------------------------------------------------------------------
(* Optimizer and gradient buffers *)

\* torch.optim.SGD(model.parameters(), lr=0.01)
lr == Rat(1, 100)

\* A parameter is stored to the nearest multiple of 1/Resolution.
Store(q) == Rat(RatRound(RatMul(q, RInt(Resolution))), Resolution)

\* optimizer.step(): p = p - lr * p.grad
SgdStep(w, g) ==
    Tensor([i \in CIdx |-> [k \in FIdx |-> Store(RatSub(w[i][k], RatMul(lr, g[i][k])))]])

\* optimizer.zero_grad() / model.zero_grad(): the .grad buffer is reset
\* (set_to_none)
ZeroGradKeep(buf) == buf
ZeroGrad(buf) == None

\* backward() accumulates into the .grad buffer of a leaf
AccumulateGrad(buf, g) == IF buf = None THEN g ELSE MatAdd(buf, g)

\* The parameters after the cell "model.zero_grad(); ...backward(); g2 = ...":
\* the cell calls no optimizer.step(), so they are what they were.
ParamsWithOptimizerStep(w, g) == SgdStep(w, g)
ParamsAfterBackwardCell(w, g) == w

---------------------------------------------------------------------------
(* Inputs *)

Row(a, b, c, d) ==
    [s \in {0} |-> [k \in FIdx |-> RInt(<<a, b, c, d>>[k + 1])]]

\* A batch of one sample (batch_size=1)
Sample(x, y) == [data |-> x, target |-> [s \in {0} |-> y]]

\* Initial weights: the zero matrix and one matrix in the range of the
\* default initialisation of nn.Linear(4, 3), U(-1/2, 1/2)
ZeroW == Zeros(Classes, Features)
SomeW ==
    [i \in CIdx |-> [k \in FIdx |->
        IF i = 0 /\ k = 0 THEN Rat(1, 2)
        ELSE IF i = 1 /\ k = 1 THEN Rat(-1, 4)
        ELSE IF i = 2 /\ k = 3 THEN Rat(1, 4)
        ELSE RZero]]
InitWeights == {ZeroW, SomeW}

\* Training samples (labels of the data set are classes)
TrainSet == {Sample(Row(5, 3, 1, 0), 1)}

\* Samples handed to the evaluation; the labels outside the classes are
\* there to exercise the failure paths.
TestSet ==
    {Sample(Row(1, 2, 3, 4), y) : y \in {0, 1, 3, -1, IgnoreIndex}}
        \cup {Sample(Row(2, 0, 1, 3), 2)}

---------------------------------------------------------------------------
(* State *)

VARIABLES
    W,       \* model.linear.weight, which params["linear.weight"] aliases
    grad,    \* model.linear.weight.grad
    steps,   \* optimizer steps taken
    phase,   \* "train" while the training loop runs, then "eval"
    data,    \* the captured sample's features (1x4)
    target,  \* the captured sample's label (1)
    g1,      \* gradient by torch.func.grad
    g2,      \* gradient by loss.backward
    g3,      \* gradient by the closed formula
    okg,     \* the pair (allclose(g1, g2), allclose(g1, g3))
    hess1,   \* Hessian by torch.func.hessian
    hess2,   \* Hessian by the closed formula
    writes,  \* how many times the loop assigned each entry of hess2
    okh,     \* the 1-tuple (allclose(hess1, hess2))
    raised,  \* per cell: "none" (not run), "ok", or the exception it raised
    reran    \* some cell has run again after it had produced its output

vars == <<W, grad, steps, phase, data, target, g1, g2, g3, okg,
          hess1, hess2, writes, okh, raised, reran>>

Cells == {"grad_func", "grad_backward", "grad_analytic", "check_grad",
          "hess_func", "hess_analytic", "check_hess"}

Init ==
    /\ W \in InitWeights
    /\ grad = None
    /\ steps = 0
    /\ phase = "train"
    /\ data = None
    /\ target = None
    /\ g1 = None /\ g2 = None /\ g3 = None /\ okg = None
    /\ hess1 = None /\ hess2 = None /\ writes = None /\ okh = None
    /\ raised = [c \in Cells |-> "none"]
    /\ reran = FALSE

\* One iteration of the training loop: optimizer.zero_grad(); out =
\* model(data); loss = criterion(out, target); loss.backward();
\* optimizer.step()
TrainStep(s) ==
    /\ phase = "train"
    /\ steps < MaxTrainSteps
    /\ grad' = AccumulateGrad(ZeroGrad(grad), Backward(W, s.data, s.target))
    /\ W' = SgdStep(W, grad')
    /\ steps' = steps + 1
    /\ UNCHANGED <<phase, data, target, g1, g2, g3, okg, hess1, hess2, writes, okh,
                   raised, reran>>

\* data, target = next(iter(test_loader)); params = dict(model.named_parameters())
Capture(s) ==
    /\ phase = "train"
    /\ phase' = "eval"
    /\ data' = s.data
    /\ target' = s.target
    /\ UNCHANGED <<W, grad, steps, g1, g2, g3, okg, hess1, hess2, writes, okh,
                   raised, reran>>

\* g_dict = grad(compute_loss, argnums=1)(model, params, data, target); g1 = ...
GradFunc ==
    /\ phase = "eval"
    /\ IF CrossEntropyRaises(target)
       THEN /\ raised' = [raised EXCEPT !["grad_func"] = "IndexError"]
            /\ UNCHANGED <<g1, reran>>
       ELSE /\ raised' = [raised EXCEPT !["grad_func"] = "ok"]
            /\ g1' = FuncGrad(W, data, target)
            /\ reran' = (reran \/ g1 # None)
    /\ UNCHANGED <<W, grad, steps, phase, data, target, g2, g3, okg, hess1, hess2,
                   writes, okh>>

\* model.zero_grad(); criterion(model(data), target).backward(); g2 = ...
GradBackward ==
    /\ phase = "eval"
    /\ IF CrossEntropyRaises(target)
       THEN /\ raised' = [raised EXCEPT !["grad_backward"] = "IndexError"]
            /\ grad' = ZeroGrad(grad)
            /\ W' = W
            /\ UNCHANGED <<g2, reran>>
       ELSE /\ raised' = [raised EXCEPT !["grad_backward"] = "ok"]
            /\ grad' = AccumulateGrad(ZeroGrad(grad), Backward(W, data, target))
            /\ W' = ParamsAfterBackwardCell(W, grad')
            /\ g2' = Flatten(grad')
            /\ reran' = (reran \/ g2 # None)
    /\ UNCHANGED <<steps, phase, data, target, g1, g3, okg, hess1, hess2, writes, okh>>

\* out = model(data); target_onehot = F.one_hot(target, num_classes=3); g3 = ...
GradAnalytic ==
    /\ phase = "eval"
    /\ IF OneHotRaises(target)
       THEN /\ raised' = [raised EXCEPT !["grad_analytic"] = "RuntimeError"]
            /\ UNCHANGED <<g3, reran>>
       ELSE /\ raised' = [raised EXCEPT !["grad_analytic"] = "ok"]
            /\ g3' = AnalyticGrad(W, data, target)
            /\ reran' = (reran \/ g3 # None)
    /\ UNCHANGED <<W, grad, steps, phase, data, target, g1, g2, okg, hess1, hess2,
                   writes, okh>>

\* torch.allclose(g1, g2), torch.allclose(g1, g3); the cell runs once the
\* three gradients it names exist
CheckGrad ==
    /\ phase = "eval"
    /\ g1 # None /\ g2 # None /\ g3 # None
    /\ raised' = [raised EXCEPT !["check_grad"] = "ok"]
    /\ okg' = <<AllCloseVec(g1, g2), AllCloseVec(g1, g3)>>
    /\ UNCHANGED <<W, grad, steps, phase, data, target, g1, g2, g3, hess1, hess2,
                   writes, okh, reran>>

\* hess_dict = hessian(compute_loss, argnums=1)(model, params, data, target); hess1 = ...
HessFunc ==
    /\ phase = "eval"
    /\ IF CrossEntropyRaises(target)
       THEN /\ raised' = [raised EXCEPT !["hess_func"] = "IndexError"]
            /\ UNCHANGED <<hess1, reran>>
       ELSE /\ raised' = [raised EXCEPT !["hess_func"] = "ok"]
            /\ hess1' = FuncHessian(W, data, target)
            /\ reran' = (reran \/ hess1 # None)
    /\ UNCHANGED <<W, grad, steps, phase, data, target, g1, g2, g3, okg, hess2,
                   writes, okh>>

\* prob = ...; hess2 = torch.zeros(12, 12); for i ...: for j ...: hess2[...] = ...
HessAnalytic ==
    /\ phase = "eval"
    /\ LET r == AnalyticHessian(W, data)
       IN  /\ hess2' = r.h
           /\ writes' = r.writes
    /\ raised' = [raised EXCEPT !["hess_analytic"] = "ok"]
    /\ reran' = (reran \/ hess2 # None)
    /\ UNCHANGED <<W, grad, steps, phase, data, target, g1, g2, g3, okg, hess1, okh>>

\* torch.allclose(hess1, hess2); the cell runs once both Hessians exist
CheckHess ==
    /\ phase = "eval"
    /\ hess1 # None /\ hess2 # None
    /\ raised' = [raised EXCEPT !["check_hess"] = "ok"]
    /\ okh' = <<AllCloseMat(hess1, hess2)>>
    /\ UNCHANGED <<W, grad, steps, phase, data, target, g1, g2, g3, okg, hess1, hess2,
                   writes, reran>>

Next ==
    \/ \E s \in TrainSet : TrainStep(s)
    \/ \E s \in TestSet : Capture(s)
    \/ GradFunc
    \/ GradBackward
    \/ GradAnalytic
    \/ CheckGrad
    \/ HessFunc
    \/ HessAnalytic
    \/ CheckHess

Spec == Init /\ [][Next]_vars

---------------------------------------------------------------------------
(* Properties *)

Label == target[0]
X == data[0]
Evaluating == phase = "eval"
Scenario == W = ZeroW /\ data = Row(1, 2, 3, 4)
EntryIdx(i, k) == Features * i + k

\* (C1) Whenever the functional gradient g1 and the analytic gradient g3
\* have both been computed (so the label is a class), they agree entry by
\* entry within atol = 1e-8 and rtol = 1e-5, and a verdict allclose(g1, g3)
\* that the check cell has printed is True.
C1_FuncGradMatchesAnalytic ==
    (Evaluating /\ g1 # None /\ g3 # None) =>
        /\ AllCloseVec(g1, g3)
        /\ (okg # None => okg[2])

C1_Witness ==
    /\ Evaluating /\ steps > 0 /\ Label \in Labels
    /\ okg # None /\ okg[2]
    /\ \E n \in PIdx : g1[n] # RZero

\* (C2) For a label that is a class, the functional Hessian hess1 and the
\* block Hessian hess2 agree entry by entry within the tolerance, the
\* printed verdict allclose(hess1, hess2) is True, and the functional
\* Hessian evaluated with any other class label is the same matrix.
C2_FuncHessianMatchesAnalytic ==
    (Evaluating /\ hess1 # None /\ hess2 # None /\ Label \in Labels) =>
        /\ AllCloseMat(hess1, hess2)
        /\ (okh # None => okh[1])
        /\ \A yy \in Labels \ {Label} :
              FuncHessian(W, data, [s \in {0} |-> yy]) = hess1

C2_Witness ==
    /\ Evaluating /\ steps > 0 /\ Label \in Labels
    /\ okh = <<TRUE>>
    /\ hess1[0][0] # RZero

\* (C3) Whenever the backpropagation gradient g2 and the functional
\* gradient g1 have both been computed they are the same 12-vector (and the
\* printed verdict allclose(g1, g2) is True), also after training steps
\* that left a gradient in the .grad buffer and after earlier evaluations.
C3_BackpropMatchesFunctional ==
    (Evaluating /\ g1 # None /\ g2 # None) =>
        /\ g1 = g2
        /\ (okg # None => okg[1])

C3_Witness ==
    /\ Evaluating /\ steps > 0 /\ reran
    /\ g1 # None /\ g2 # None /\ g2 = Flatten(grad)
    /\ \E n \in PIdx : g2[n] # RZero

\* (C4) The analytic gradient g3 holds (p[i] - t[i]) * x[k] at entry 4i + k
\* for the softmax p of the logits and the one-hot t of the label; for
\* W = 0, x = [1,2,3,4], y = 0 its first row is (1/3 - 1) x and its second
\* and third rows are (1/3) x.
C4_AnalyticGradEntries ==
    (Evaluating /\ g3 # None) =>
        /\ DOMAIN g3 = PIdx
        /\ LET p == Prob(W, data)
           IN  \A i \in CIdx : \A k \in FIdx :
                  g3[EntryIdx(i, k)] = RatMul(RatSub(p[i], Delta(i, Label)), X[k])
        /\ (Scenario /\ Label = 0) =>
              \A k \in FIdx :
                  /\ g3[EntryIdx(0, k)] = Rat(-2 * (k + 1), 3)
                  /\ g3[EntryIdx(1, k)] = Rat(k + 1, 3)
                  /\ g3[EntryIdx(2, k)] = Rat(k + 1, 3)

C4_Witness ==
    /\ Evaluating /\ g3 # None /\ Scenario /\ Label = 0
    /\ g3[EntryIdx(0, 3)] = Rat(-8, 3)

\* (C5) After the block loop every entry of hess2 has been assigned exactly
\* once and entry [4i + k, 4j + l] is p[i] (delta_ij - p[j]) x[k] x[l]; for
\* W = 0 and x = [1,2,3,4] block (0,0) is (2/9) x x^T and block (0,1) is
\* -(1/9) x x^T.
C5_AnalyticHessianEntries ==
    (Evaluating /\ hess2 # None) =>
        /\ \A a \in PIdx : \A b \in PIdx : writes[a][b] = 1
        /\ LET p == Prob(W, data)
           IN  \A i \in CIdx : \A j \in CIdx : \A k \in FIdx : \A l \in FIdx :
                  hess2[EntryIdx(i, k)][EntryIdx(j, l)] =
                      RatMul(RatMul(p[i], RatSub(Delta(i, j), p[j])), RatMul(X[k], X[l]))
        /\ Scenario =>
              \A k \in FIdx : \A l \in FIdx :
                  /\ hess2[EntryIdx(0, k)][EntryIdx(0, l)] = Rat(2 * (k + 1) * (l + 1), 9)
                  /\ hess2[EntryIdx(0, k)][EntryIdx(1, l)] = Rat(-(k + 1) * (l + 1), 9)

C5_Witness ==
    /\ Evaluating /\ hess2 # None /\ Scenario
    /\ hess2[EntryIdx(0, 3)][EntryIdx(1, 3)] = Rat(-16, 9)
    /\ writes[NParams - 1][NParams - 1] = 1

Symmetric(A) == \A a \in DOMAIN A : \A b \in DOMAIN A : A[a][b] = A[b][a]

\* (C6) The block Hessian hess2 is symmetric: entry [a, b] equals entry
\* [b, a] for all a, b in 0 .. 11.
C6_AnalyticHessianSymmetric ==
    (Evaluating /\ hess2 # None) => Symmetric(hess2)

C6_Witness ==
    /\ Evaluating /\ hess2 # None /\ steps > 0
    /\ hess2[EntryIdx(0, 1)][EntryIdx(1, 0)] # RZero
    /\ hess2[EntryIdx(0, 1)][EntryIdx(1, 0)] # hess2[EntryIdx(0, 1)][EntryIdx(2, 0)]

RECURSIVE BigSubB(_, _, _)
\* a - b - c for a >= b + c, digit by digit with the borrow c
BigSubB(a, b, c) ==
    IF a = <<>> THEN <<>>
    ELSE LET d == Head(a) - (IF b = <<>> THEN 0 ELSE Head(b)) - c
         IN  <<IF d < 0 THEN d + BigBase ELSE d>> \o
             BigSubB(Tail(a), IF b = <<>> THEN b ELSE Tail(b), IF d < 0 THEN 1 ELSE 0)

BigSub(a, b) == BigTrim(BigSubB(a, b, 0))

\* Integers of any size: a sign s in {-1, 0, 1} and a magnitude m
SInt(n) == [s |-> IF n < 0 THEN -1 ELSE IF n = 0 THEN 0 ELSE 1, m |-> BigOf(AbsInt(n))]

SMul(a, b) == [s |-> a.s * b.s, m |-> BigMul(a.m, b.m)]

SSub(a, b) ==
    IF b.s = 0 THEN a
    ELSE IF a.s = 0 THEN [s |-> -b.s, m |-> b.m]
    ELSE IF a.s # b.s THEN [s |-> a.s, m |-> BigAdd(a.m, b.m)]
    ELSE IF a.m = b.m THEN SInt(0)
    ELSE IF BigLeq(a.m, b.m) THEN [s |-> -a.s, m |-> BigSub(b.m, a.m)]
    ELSE [s |-> a.s, m |-> BigSub(a.m, b.m)]

RECURSIVE LcmOf(_)
\* The least common multiple of a set of positive integers
LcmOf(S) ==
    IF S = {} THEN 1
    ELSE LET d == CHOOSE e \in S : TRUE
             r == LcmOf(S \ {d})
         IN  (d \div GCD(d, r)) * r

\* A times the least common denominator of its entries: an integer matrix,
\* positive semi-definite iff A is
ScaleToIntegers(A) ==
    LET L == LcmOf({A[a][b][2] : a \in DOMAIN A, b \in DOMAIN A})
    IN  Tensor([a \in DOMAIN A |-> [b \in DOMAIN A |->
            SMul(SInt(A[a][b][1]), SInt(L \div A[a][b][2]))]])

\* One step of symmetric elimination on a positive pivot M[a][a]: M[a][a]
\* times the Schur complement of the pivot in the rows and columns after a
Eliminate(M, a) ==
    Tensor([b \in DOMAIN M |-> [c \in DOMAIN M |->
        IF b > a /\ c > a
        THEN SSub(SMul(M[a][a], M[b][c]), SMul(M[b][a], M[a][c]))
        ELSE M[b][c]]])

RECURSIVE PsdFrom(_, _)
\* A symmetric matrix is positive semi-definite iff elimination never meets
\* a negative pivot, and meets a zero pivot only with a zero row.
PsdFrom(M, a) ==
    IF a = Len0(M) THEN TRUE
    ELSE IF M[a][a].s < 0 THEN FALSE
    ELSE IF M[a][a].s = 0
         THEN (\A b \in DOMAIN M : b > a => M[a][b].s = 0) /\ PsdFrom(M, a + 1)
         ELSE PsdFrom(Eliminate(M, a), a + 1)

PositiveSemiDefinite(A) == Symmetric(A) /\ PsdFrom(ScaleToIntegers(A), 0)

\* v^T A v
QuadForm(A, v) ==
    RatSum([a \in DOMAIN A |->
        RatMul(v[a], RatSum([b \in DOMAIN A |-> RatMul(A[a][b], v[b])]))])

\* Probe vectors: each unit vector plus or minus another one
ProbeVectors ==
    {[n \in PIdx |-> RInt(IF n = a THEN 1 ELSE IF n = (a + 5) % NParams THEN s ELSE 0)] :
        a \in PIdx, s \in {-1, 1}}

\* (C7) The block Hessian hess2 is positive semi-definite: v^T hess2 v >= 0
\* for every vector v, decided exactly by symmetric elimination, and seen
\* directly on the probe vectors.
C7_AnalyticHessianPSD ==
    (Evaluating /\ hess2 # None) =>
        /\ PositiveSemiDefinite(hess2)
        /\ \A v \in ProbeVectors : RatLeq(RZero, QuadForm(hess2, v))

C7_Witness ==
    /\ Evaluating /\ hess2 # None /\ steps > 0
    /\ RatLt(RZero, hess2[0][0])
    /\ RatLt(hess2[0][EntryIdx(1, 0)], RZero)

\* (C8) Idempotence: a routine that runs again on the same W and sample
\* leaves its output as it was, whatever ran in between and whatever the
\* .grad buffer held.
C8_Idempotent ==
    [][(Evaluating /\ W' = W /\ data' = data /\ target' = target) =>
          /\ (g1 # None => g1' = g1)
          /\ (g2 # None => g2' = g2)
          /\ (g3 # None => g3' = g3)
          /\ (hess1 # None => hess1' = hess1)
          /\ (hess2 # None => hess2' = hess2 /\ writes' = writes)]_vars

C8_Witness ==
    /\ Evaluating /\ reran /\ steps > 0 /\ Label \in Labels
    /\ g1 # None /\ g2 # None /\ g3 # None /\ hess1 # None /\ hess2 # None
    /\ okg = <<TRUE, TRUE>> /\ okh = <<TRUE>>

\* (C9) With a label outside {0, 1, 2}, every evaluation path (functional
\* gradient and Hessian through compute_loss, criterion + backward, the
\* one-hot analytic gradient) that has run has raised, and none of them has
\* produced a value.
C9_InvalidLabelFails ==
    (Evaluating /\ Label \notin Labels) =>
        /\ \A c \in {"grad_func", "grad_backward", "grad_analytic", "hess_func"} :
              raised[c] # "ok"
        /\ g1 = None /\ g2 = None /\ g3 = None /\ hess1 = None

\* (C10) Once the sample is captured, no step changes W, x or y.
C10_EvaluationLeavesInputs ==
    [][Evaluating => (W' = W /\ data' = data /\ target' = target)]_vars

C10_Witness ==
    /\ Evaluating /\ reran /\ steps > 0
    /\ g2 # None /\ grad # None /\ \E n \in PIdx : g2[n] # RZero
    /\ hess1 # None /\ raised["check_hess"] = "ok"

============================================================================
